---- MODULE Spec2Model ----
(***************************************************************************)
(* A model of audit-repo-cloner (src/audit_repo_cloner/create_audit_repo.py).*)
(*                                                                         *)
(* The tool is one sequential pipeline, _create_audit_repo.  Its state is  *)
(* the job configuration it reads, the remote target repository it         *)
(* creates and mutates, and the local working copy it builds.  Every       *)
(* handler of the pipeline is one action.  The outcome of an external      *)
(* command or API call that the code branches on (a return code, an        *)
(* exception) is an input of the action, drawn with \E.                    *)
(*                                                                         *)
(* Paths are sequences of path components.  Strings are atoms for TLC, so  *)
(* "the name starts with a dot" is the membership of the name in           *)
(* HiddenNames.                                                            *)
(***************************************************************************)
EXTENDS Naturals, Sequences, FiniteSets, TLC

VARIABLES config, run, remote, local

vars == <<config, run, remote, local>>

(***************************************************************************)
(* Bounds of the model.                                                    *)
(***************************************************************************)
\* the longest repositories list of a job
MaxEntries == 2
\* the most external commands or API calls that fail in one run
MaxFaults == 1

(***************************************************************************)
(* Paths and directory trees.                                              *)
(***************************************************************************)
HiddenNames == {".github", ".config", ".gitignore", ".gitmodules"}

\* str.startswith(".") on a path component
IsHidden(name) == name \in HiddenNames

IsPrefix(p, q) == Len(p) <= Len(q) /\ SubSeq(q, 1, Len(p)) = p

\* the proper, non-empty prefixes of a path: the directories above it
ParentsOf(p) == { SubSeq(p, 1, n) : n \in 1..(Len(p) - 1) }

\* the components of q below the directory d
Below(d, q) == SubSeq(q, Len(d) + 1, Len(q))

NoHidden(p) == \A n \in 1..Len(p) : ~IsHidden(p[n])

\* A tree is [files, dirs]: the paths of its files and of its directories,
\* relative to the repository root (the root itself, <<>>, always exists).
EmptyTree == [files |-> {}, dirs |-> {}]

Exists(t, p) == p = <<>> \/ p \in t.files \/ p \in t.dirs

IsDir(t, p) == p = <<>> \/ p \in t.dirs

\* the tree with the files fs added under the directory d (d and every
\* directory on the way is created)
AddFiles(t, d, fs) ==
    LET new == { d \o f : f \in fs }
    IN [files |-> t.files \cup new,
        dirs  |-> t.dirs \cup UNION { ParentsOf(p) : p \in new }
                         \cup (IF d = <<>> THEN {} ELSE {d} \cup ParentsOf(d))]

\* rm -rf p / shutil.rmtree(p): p and everything below it is gone
RmTree(t, p) ==
    [files |-> { f \in t.files : ~IsPrefix(p, f) },
     dirs  |-> { q \in t.dirs : ~IsPrefix(p, q) }]

(***************************************************************************)
(* remove_github_actions and verify_files_exist.                           *)
(***************************************************************************)
GITHUB_ACTIONS_PATHS ==
    << <<".github", "workflows">>, <<".github", "actions">>, <<".github", "action">> >>

\* glob's "**" under d with recursive=True: d itself and every directory
\* reached from d through directories whose names do not start with a dot
RecursiveDirs(t, d) ==
    IF IsDir(t, d)
    THEN {d} \cup { q \in t.dirs : IsPrefix(d, q) /\ NoHidden(Below(d, q)) }
    ELSE {}

\* glob.glob(os.path.join(d, "**", ci), recursive=True)
GlobMatches(t, d, ci) ==
    { m \in { q \o ci : q \in RecursiveDirs(t, d) } : Exists(t, m) }

\* a removal that takes the whole .github directory of every match
RemoveMatches_WholeGithub(t, d, ci) ==
    LET ms == { SubSeq(m, 1, Len(m) - 1) : m \in { x \in GlobMatches(t, d, ci) : IsDir(t, x) } }
    IN [files |-> { f \in t.files : \A m \in ms : ~IsPrefix(m, f) },
        dirs  |-> { q \in t.dirs : \A m \in ms : ~IsPrefix(m, q) }]

\* one round of the loop over GITHUB_ACTIONS_PATHS: every match that is a
\* directory is removed with shutil.rmtree (on a file rmtree raises, the
\* error is logged and the file stays)
RemoveMatches(t, d, ci) ==
    LET ms == { m \in GlobMatches(t, d, ci) : IsDir(t, m) }
    IN [files |-> { f \in t.files : \A m \in ms : ~IsPrefix(m, f) },
        dirs  |-> { q \in t.dirs : \A m \in ms : ~IsPrefix(m, q) }]

remove_github_actions(t, d) ==
    RemoveMatches(
        RemoveMatches(
            RemoveMatches(t, d, GITHUB_ACTIONS_PATHS[1]),
            d, GITHUB_ACTIONS_PATHS[2]),
        d, GITHUB_ACTIONS_PATHS[3])

\* verify_files_exist returns True (it raises otherwise): the target exists
\* and os.walk, which prunes the directories whose names start with a dot,
\* meets a file whose name does not start with a dot
verify_files_exist(t, target) ==
    /\ Exists(t, target)
    /\ \E f \in t.files :
          /\ IsPrefix(target, f)
          /\ f # target
          /\ NoHidden(Below(target, f))

(***************************************************************************)
(* URLs.  A URL is the sequence of its tokens: "https://", "/", ".git" and *)
(* words that hold none of them; the string is the concatenation of the    *)
(* tokens.                                                                 *)
(***************************************************************************)
\* https://github.com/<owner>/<name>
RepoUrl(owner, name) == <<"https://", "github.com", "/", owner, "/", name>>

\* source_url.replace(".git", ""): every occurrence goes
RemoveDotGit(url) == SelectSeq(url, LAMBDA t : t # ".git")

RECURSIVE RStripSlash(_)
\* url.rstrip("/"): every trailing slash goes
RStripSlash(url) ==
    IF url # <<>> /\ url[Len(url)] = "/"
    THEN RStripSlash(SubSeq(url, 1, Len(url) - 1))
    ELSE url

\* where r"/tree/[^/]+/?$" matches: "/tree/", then one or more characters
\* that are not a slash, then at most one slash, then the end
TreeMatches(url) ==
    { p \in 1..(Len(url) - 3) :
        /\ url[p] = "/" /\ url[p + 1] = "tree" /\ url[p + 2] = "/"
        /\ url[p + 3] # "/"
        /\ \A q \in (p + 3)..(Len(url) - 1) : url[q] # "/" }

\* re.sub(r"/tree/[^/]+/?$", "", url)
RemoveTree(url) ==
    IF TreeMatches(url) = {} THEN url
    ELSE SubSeq(url, 1, (CHOOSE p \in TreeMatches(url) : TRUE) - 1)

RECURSIVE InsertToken(_, _)
\* url.replace("https://", f"https://{github_token}@")
InsertToken(url, token) ==
    IF url = <<>> THEN <<>>
    ELSE IF url[1] = "https://"
    THEN <<"https://", token, "@">> \o InsertToken(Tail(url), token)
    ELSE <<url[1]>> \o InsertToken(Tail(url), token)

prepare_authenticated_url(source_url, github_token) ==
    InsertToken(RemoveTree(RStripSlash(RemoveDotGit(source_url))), github_token)

\* source_url.split("/")[-1]: what follows the last slash (the token
\* "https://" ends with one)
LastPart(url) ==
    LET slashes == { p \in DOMAIN url : url[p] \in {"/", "https://"} }
        last    == IF slashes = {} THEN 0
                   ELSE CHOOSE p \in slashes : \A q \in slashes : q <= p
    IN SubSeq(url, last + 1, Len(url))

\* the string whose tokens are part, as a name of the model: a single word
\* is the name, and the names with a ".git" after the word are listed
Text(part) ==
    IF part = <<>> THEN ""
    ELSE IF Len(part) = 1 THEN part[1]
    ELSE CASE part = <<"lib", ".git">> -> "lib.git"
           [] part = <<"tool", ".git">> -> "tool.git"

(***************************************************************************)
(* The job configuration (config.json) and the source repositories.        *)
(***************************************************************************)
\* An entry of repositories: keys are the keys the JSON object has; a key
\* it lacks reads as empty.  A source URL is the sequence of its tokens
\* (<<>>: empty), subFolder is a path (<<>>: empty).
EntryLib ==
    [sourceUrl |-> RepoUrl("o1", "lib"),
     commitHash |-> "c1", subFolder |-> <<>>,
     keys |-> {"sourceUrl", "commitHash"}]
EntryVendored ==
    [sourceUrl |-> RepoUrl("o2", "lib"),
     commitHash |-> "c2", subFolder |-> <<"vendor", "b">>,
     keys |-> {"sourceUrl", "commitHash", "subFolder"}]
EntryNoCommit ==
    [sourceUrl |-> RepoUrl("o1", "core"),
     commitHash |-> "", subFolder |-> <<>>,
     keys |-> {"sourceUrl", "commitHash"}]
EntryNoUrl ==
    [sourceUrl |-> <<>>, commitHash |-> "c4", subFolder |-> <<>>,
     keys |-> {"commitHash"}]
EntryDotfiles ==
    [sourceUrl |-> RepoUrl("o1", "dotfiles"),
     commitHash |-> "c5", subFolder |-> <<>>,
     keys |-> {"sourceUrl", "commitHash"}]

EntryTool ==
    [sourceUrl |-> RepoUrl("o3", "tool"),
     commitHash |-> "c6", subFolder |-> <<>>,
     keys |-> {"sourceUrl", "commitHash"}]

EntryChoices ==
    {EntryLib, EntryVendored, EntryNoCommit, EntryNoUrl, EntryDotfiles, EntryTool}

\* the source repositories of the host that the token can read
SourceRepositories ==
    { RepoUrl("o1", "lib"), RepoUrl("o2", "lib"), RepoUrl("o1", "core"),
      RepoUrl("o1", "dotfiles"), RepoUrl("o3", "tool"), RepoUrl("o4", "core") }

\* the files of the source repository at a URL, at the pinned commit
SourceFiles(url) ==
    IF url = EntryLib.sourceUrl THEN
        { <<"src", "f.sol">>,
          <<".github", "workflows", "ci.yml">>,
          <<".github", "ISSUE_TEMPLATE", "bug.md">>,
          <<"pkg", ".github", "actions", "a.yml">>,
          <<".gitmodules">> }
    ELSE IF url = EntryVendored.sourceUrl THEN
        { <<"README.md">>,
          <<".config", ".github", "workflows", "ci.yml">> }
    ELSE IF url = EntryDotfiles.sourceUrl THEN
        { <<".gitignore">>,
          <<".github", "action", "x.yml">> }
    ELSE { <<"README.md">> }

\* the submodule declarations of the source repository at a URL: the
\* contents of its .gitmodules files, by the directory of the file
SourceModules(url) ==
    IF url = EntryLib.sourceUrl THEN
        { [dir |-> <<>>, name |-> <<"c">>, key |-> "path", value |-> <<"lib">>],
          [dir |-> <<>>, name |-> <<"c">>, key |-> "url", value |-> <<"u1">>] }
    ELSE {}

RepoLists == UNION { [1..n -> EntryChoices] : n \in 0..MaxEntries }

\* auditors is the list auditors.split(" "); <<>> is a missing or empty one
AuditorChoices == { <<>>, <<"alice">>, <<"alice", "bob">>, <<"alice", "alice">> }

Configs ==
    [fileExists     : BOOLEAN,
     targetRepoName : {"", "audit"},
     auditors       : AuditorChoices,
     credentials    : BOOLEAN,
     repositories   : RepoLists]

(***************************************************************************)
(* The state.                                                              *)
(*   config  the job: the config file and the token/organization           *)
(*   run     the position of the run: pc (the pipeline stage), idx (the    *)
(*           source entry being processed), phase (the part of             *)
(*           clone_source_repo_as_subtree to run next), faults (external   *)
(*           failures so far), ops (the external commands and API calls    *)
(*           made so far, each with the entry it was made for, 0 if none)  *)
(*   remote  the target repository on the host                             *)
(*   local   the working copy in the temporary directory                   *)
(* A commit is [kind, entry, files]: files is its tree.                    *)
(***************************************************************************)
\* ~/.git-credentials, the file of the credential helper "store": a list of
\* lines, each with the secret it holds
TokenLine == [host |-> "github.com", secret |-> "github_token"]
OtherLine == [host |-> "example.org", secret |-> "other"]

\* the file before the run
CredFileChoices == { <<OtherLine>>, <<TokenLine, OtherLine>> }

\* setup_git_credentials: the line of the token is appended
setup_git_credentials(file) == Append(file, TokenLine)

HoldsToken(line) == line.secret = TokenLine.secret

\* cleanup_git_credentials: the lines without the token are written back.
\* The rewrite is in a try whose handler prints a warning: when reading or
\* opening the file raises (fails), the file is left as it is and nothing
\* is raised
cleanup_git_credentials(file, fails) ==
    IF fails THEN file ELSE SelectSeq(file, LAMBDA line : ~HoldsToken(line))

\* the file after cred_file = setup_git_credentials(...); try: ...
\* finally: cleanup_git_credentials(cred_file, ...), whether the try block
\* raised or not
CredentialsAfter(file, fails) ==
    cleanup_git_credentials(setup_git_credentials(file), fails)

NoLocal == [present |-> FALSE, tree |-> EmptyTree, commits |-> <<>>,
            modules |-> {}, assigned |-> {}]

Init ==
    /\ config \in Configs
    /\ run \in { [pc |-> "start", idx |-> 0, phase |-> "none", faults |-> 0,
                  ops |-> {}, creds |-> f] : f \in CredFileChoices }
    /\ remote \in { [exists |-> e, created |-> FALSE, main |-> <<>>, tags |-> {},
                     branches |-> {}, labels |-> {}, board |-> FALSE] : e \in BOOLEAN }
    /\ local = NoLocal

Op(name, entry) == [op |-> name, entry |-> entry]

Did(r, names, entry) == [r EXCEPT !.ops = @ \cup { Op(n, entry) : n \in names }]

Fault(r) == [r EXCEPT !.faults = @ + 1]

MayFail == run.faults < MaxFaults

\* the head commit of a branch, as repo.get_commits()[0] and HEAD give it
HeadCommit(commits) == commits[Len(commits)]

HeadFiles(commits) == IF commits = <<>> THEN {} ELSE HeadCommit(commits).files

(***************************************************************************)
(* _create_audit_repo, lines 135-157: load and validate the configuration. *)
(***************************************************************************)
\* a validation that forgets the auditors
ConfigUsageError_NoAuditors(c) ==
    \/ ~c.fileExists
    \/ c.repositories = <<>>
    \/ c.targetRepoName = ""
    \/ ~c.credentials

ConfigUsageError(c) ==
    \/ ~c.fileExists
    \/ c.repositories = <<>>
    \/ c.targetRepoName = ""
    \/ c.auditors = <<>>
    \/ ~c.credentials

LoadConfig ==
    /\ run.pc = "start"
    /\ run' = [run EXCEPT !.pc = IF ConfigUsageError(config)
                                 THEN "usage_error" ELSE "create_repo"]
    /\ UNCHANGED <<config, remote, local>>

(***************************************************************************)
(* An exception leaves _create_audit_repo: the temporary directory, and    *)
(* the working copy in it, is deleted; nothing is undone on the remote.    *)
(***************************************************************************)
\* an abort that cleans up by deleting the repository the run created
RemoteAfterAbort_Cleanup(rem) ==
    IF rem.created THEN [rem EXCEPT !.exists = FALSE] ELSE rem

RemoteAfterAbort(rem) == rem

\* an exception that is caught and logged where it is raised
Raise_Swallowed(r, kind) == r

\* the exception leaves _create_audit_repo: no statement after the raising
\* one is run
Raise(r, kind) == [r EXCEPT !.pc = kind]

(***************************************************************************)
(* create_target_repo.                                                     *)
(***************************************************************************)
\* the labels the host gives a new repository
HostDefaultLabels ==
    {"bug", "duplicate", "enhancement", "invalid", "question", "wontfix",
     "good first issue", "help wanted", "documentation"}

\* the existence check: git ls-remote returns 0
ExistenceCheckFinds(exists, lsFails) == exists /\ ~lsFails

\* an except clause that catches every exception swallows the UsageError
UsageErrorPropagates_Swallowed(found) == FALSE

\* the click.UsageError raised in the try block leaves create_target_repo:
\* the except clause catches subprocess.CalledProcessError only
UsageErrorPropagates(found) == found

CreateTargetRepo ==
    /\ run.pc = "create_repo"
    /\ \E lsFails \in BOOLEAN, createFails \in BOOLEAN :
          /\ (lsFails \/ createFails) => MayFail
          /\ ~(lsFails /\ createFails)
          /\ LET found == ExistenceCheckFinds(remote.exists, lsFails)
                 r0    == Did(IF lsFails \/ createFails THEN Fault(run) ELSE run,
                              {"ls_remote_target"} \cup
                              (IF found THEN {"target_found"} ELSE {}), 0)
             IN IF UsageErrorPropagates(found)
                THEN \* raise click.UsageError: the repository already exists
                     /\ ~createFails
                     /\ run' = Raise(r0, "usage_error")
                     /\ remote' = RemoteAfterAbort(remote)
                ELSE IF remote.exists \/ createFails
                THEN \* create_repo raises GithubException: click.UsageError
                     /\ run' = Raise(Did(r0, {"create_repo"}, 0), "usage_error")
                     /\ remote' = RemoteAfterAbort(remote)
                ELSE /\ run' = [Did(r0, {"create_repo"}, 0) EXCEPT !.pc = "init"]
                     /\ remote' = [remote EXCEPT !.exists = TRUE, !.created = TRUE,
                                                 !.labels = HostDefaultLabels]
    /\ UNCHANGED <<config, local>>

(***************************************************************************)
(* initialize_repo: README, first commit, push (a failed push is logged    *)
(* and the run continues).                                                 *)
(***************************************************************************)
InitCommit == [kind |-> "init", entry |-> 0, files |-> { <<"README.md">> }]

InitializeRepo ==
    /\ run.pc = "init"
    /\ \E pushFails \in BOOLEAN :
          /\ pushFails => MayFail
          /\ local' = [present |-> TRUE,
                       tree |-> AddFiles(EmptyTree, <<>>, InitCommit.files),
                       commits |-> <<InitCommit>>,
                       modules |-> {}, assigned |-> {}]
          /\ remote' = IF pushFails THEN remote
                       ELSE [remote EXCEPT !.main = <<InitCommit>>]
          /\ run' = [Did(IF pushFails THEN Fault(run) ELSE run,
                         {"git_init", "git_commit", "git_push"}, 0)
                        EXCEPT !.pc = "merge", !.idx = 1, !.phase = "merge"]
    /\ UNCHANGED config

(***************************************************************************)
(* The loop over the source entries, _create_audit_repo lines 169-178.     *)
(***************************************************************************)
\* a test that forgets the commit
EntryComplete_UrlOnly(e) == e.sourceUrl # <<>>

\* not (not source_url or not commit_hash)
EntryComplete(e) == e.sourceUrl # <<>> /\ e.commitHash # ""

\* url_parts[-1]
SourceRepoName(url) == Text(LastPart(url))

\* sub_folder or source_repo_name, as a path of the working copy: with an
\* empty name os.path.join(repo_path, "") is the working copy itself
SubtreeTarget(e) ==
    IF e.subFolder # <<>> THEN e.subFolder
    ELSE IF SourceRepoName(e.sourceUrl) = "" THEN <<>>
    ELSE <<SourceRepoName(e.sourceUrl)>>

TagName(name) == <<name, "-cyfrin-audit">>

\* a loop that takes the entries from the end of the list
CurrentEntry_Reversed == config.repositories[Len(config.repositories) + 1 - run.idx]

\* repo_config of `for repo_config in repositories`
CurrentEntry == config.repositories[run.idx]

\* the loop goes on to the next entry, or ends
NextEntry(r) ==
    IF r.idx < Len(config.repositories)
    THEN [r EXCEPT !.idx = @ + 1, !.phase = "merge"]
    ELSE [r EXCEPT !.idx = @ + 1, !.phase = "none", !.pc = "submodules"]

SkipEntry ==
    /\ run.pc = "merge"
    /\ run.phase = "merge"
    /\ ~EntryComplete(CurrentEntry)
    /\ run' = NextEntry(run)
    /\ UNCHANGED <<config, remote, local>>

(***************************************************************************)
(* clone_source_repo_as_subtree, lines 446-536: the destination, the       *)
(* remote, the fetch, the squashed subtree merge and its verification.     *)
(* git subtree add refuses to run when the prefix exists or when the       *)
(* working tree differs from HEAD ("working tree has modifications").      *)
(***************************************************************************)
GitCommands == <<"git_ls_remote", "git_remote_add", "git_fetch", "git_subtree_add">>

\* the commands run when command number n is the last one run
CommandsUpTo(n) == { GitCommands[k] : k \in 1..n }

GitSubtreeAddRefuses(tree, commits, target) ==
    \/ Exists(tree, target)
    \/ tree.files # HeadFiles(commits)

\* the working tree once an existing destination is removed (rm -rf) and
\* the parent directories of a subFolder are made (os.makedirs)
PreparedTree(tree, e) ==
    LET target == SubtreeTarget(e)
        t1 == IF Exists(tree, target) THEN RmTree(tree, target) ELSE tree
    IN IF e.subFolder # <<>>
       THEN [t1 EXCEPT !.dirs = @ \cup ParentsOf(target)]
       ELSE t1

\* the repositories of the host at clean_url: git ls-remote clean_url
\* returns 0 when there is one, and the remote of clean_url fetches from it
RepositoriesAt(clean_url) ==
    { u \in SourceRepositories : clean_url = InsertToken(u, TokenLine.secret) }

CloneMerge ==
    /\ run.pc = "merge"
    /\ run.phase = "merge"
    /\ EntryComplete(CurrentEntry)
    /\ \E failAt \in 0..Len(GitCommands), cleanFails \in BOOLEAN :
          /\ (failAt # 0 \/ cleanFails) => MayFail
          /\ ~(failAt # 0 /\ cleanFails)
          /\ LET e      == CurrentEntry
                 target == SubtreeTarget(e)
                 clean_url == prepare_authenticated_url(e.sourceUrl, TokenLine.secret)
                 \* git ls-remote fails by itself: it cannot start in a
                 \* working copy that rm -rf has removed (the destination
                 \* is the working copy), or finds no repository
                 stopped == target = <<>> \/ RepositoriesAt(clean_url) = {}
                 rm     == IF Exists(local.tree, target) THEN {"rm_rf"} ELSE {}
                 t2     == PreparedTree(local.tree, e)
                 source == CHOOSE u \in RepositoriesAt(clean_url) : TRUE
                 t3     == AddFiles(t2, target, SourceFiles(source))
                 merged == [kind |-> "subtree", entry |-> run.idx, files |-> t3.files]
                 mods   == { m \in local.modules : ~IsPrefix(target, m.dir) } \cup
                           { [m EXCEPT !.dir = target \o m.dir] :
                               m \in SourceModules(source) }
                 refused == GitSubtreeAddRefuses(t2, local.commits, target)
                 last   == IF stopped THEN 1
                           ELSE IF failAt = 0 THEN Len(GitCommands) ELSE failAt
                 r0     == Did(IF failAt # 0 \/ cleanFails THEN Fault(run) ELSE run,
                               rm \cup CommandsUpTo(last) \cup
                               \* print: "Warning: Could not clean up ..."
                               (IF cleanFails THEN {"cleanup_failed"} ELSE {}),
                               run.idx)
             IN /\ stopped => failAt = 0
                /\ IF ~stopped /\ failAt = 0 /\ ~refused /\ verify_files_exist(t3, target)
                   THEN /\ local' = [local EXCEPT !.tree = t3, !.modules = mods,
                                                  !.commits = Append(@, merged)]
                        /\ run' = [r0 EXCEPT !.phase = "commit_push",
                                              !.creds = CredentialsAfter(@, cleanFails)]
                        /\ remote' = remote
                   ELSE \* raise Exception("Failed to add subtree: ...")
                        /\ local' = NoLocal
                        /\ run' = Raise([Did(r0, {"merge_failed"}, run.idx)
                                            EXCEPT !.creds = CredentialsAfter(@, cleanFails)],
                                        "error")
                        /\ remote' = RemoteAfterAbort(remote)
    /\ UNCHANGED config

(***************************************************************************)
(* clone_source_repo_as_subtree, lines 538-548: the CI directories are     *)
(* removed, the removal is committed (git commit has nothing to commit     *)
(* when nothing was removed) and main is pushed; a failed push is logged   *)
(* and the run continues.                                                  *)
(***************************************************************************)
CloneCommitPush ==
    /\ run.pc = "merge"
    /\ run.phase = "commit_push"
    /\ \E pushFails \in BOOLEAN :
          /\ pushFails => MayFail
          /\ LET e       == CurrentEntry
                 t       == remove_github_actions(local.tree, SubtreeTarget(e))
                 added   == [kind |-> "add", entry |-> run.idx, files |-> t.files]
                 commits == IF t.files # HeadFiles(local.commits)
                            THEN Append(local.commits, added)
                            ELSE local.commits
             IN /\ local' = [local EXCEPT !.tree = t, !.commits = commits]
                /\ remote' = IF pushFails THEN remote
                             ELSE [remote EXCEPT !.main = commits]
                /\ run' = [Did(IF pushFails THEN Fault(run) ELSE run,
                               {"git_add", "git_commit", "git_push"} \cup
                               \* log.warning: "Failed to push changes: ..."
                               (IF pushFails THEN {"push_failed"} ELSE {}), run.idx)
                              EXCEPT !.phase = "tag"]
    /\ UNCHANGED config

(***************************************************************************)
(* clone_source_repo_as_subtree, lines 550-562: the tag, on the head of    *)
(* the remote default branch.  Any GithubException is logged: an empty     *)
(* remote repository (get_commits), a failed call, or a tag that exists.   *)
(***************************************************************************)
TagExists(rem, name) == \E t \in rem.tags : t.name = name

CommitId(c) == [kind |-> c.kind, entry |-> c.entry]

\* the commit the tag of an entry is put on: repo.get_commits()[0].sha
TagTarget(rem) == CommitId(HeadCommit(rem.main))

\* the API calls of the tag, in order
TagCalls == <<"get_commits", "create_git_tag", "create_git_ref">>

\* the calls made when call number failAt raises (0: none raises): the
\* handler of GithubException logs the error and no further call is made
TagCallsMade(failAt) ==
    { TagCalls[k] : k \in 1..(IF failAt = 0 THEN Len(TagCalls) ELSE failAt) }

CloneTag ==
    /\ run.pc = "merge"
    /\ run.phase = "tag"
    /\ \E failAt \in 0..Len(TagCalls) :
          /\ failAt # 0 => MayFail
          /\ LET name == TagName(SourceRepoName(CurrentEntry.sourceUrl))
                 r0   == IF failAt # 0 THEN Fault(run) ELSE run
             IN IF remote.main = <<>>
                THEN \* get_commits raises on an empty repository
                     /\ failAt = 0
                     /\ remote' = remote
                     /\ run' = NextEntry(Did(r0, TagCallsMade(1), run.idx))
                ELSE IF failAt # 0
                THEN /\ remote' = remote
                     /\ run' = NextEntry(Did(r0, TagCallsMade(failAt), run.idx))
                ELSE IF TagExists(remote, name)
                THEN \* create_git_ref is answered 422
                     /\ remote' = remote
                     /\ run' = NextEntry(Did(r0, TagCallsMade(0) \cup {"tag_exists"},
                                             run.idx))
                ELSE /\ remote' = [remote EXCEPT !.tags = @ \cup
                                      {[name |-> name, target |-> TagTarget(remote),
                                        entry |-> run.idx]}]
                     /\ run' = NextEntry(Did(r0, TagCallsMade(0), run.idx))
    /\ UNCHANGED <<config, local>>

(***************************************************************************)
(* merge_submodules.                                                       *)
(*                                                                         *)
(* Names, keys and values of a declaration file are sequences of tokens:   *)
(* a token is one character ("c", "_", ".", "/") or a word without any of  *)
(* the separators ("submodule", "path", "url", "lib").  The contents of    *)
(* the declaration files of the working tree are local.modules, a set of   *)
(* [dir, name, key, value]: in the .gitmodules of directory dir, the       *)
(* submodule called name has the variable key set to value.                *)
(***************************************************************************)
\* len(name), for the names of the directories and files of the model
StrLen(name) ==
    CASE name = "" -> 0
      [] name \in {"a", "b", "c", "x"} -> 1
      [] name \in {"lib", "pkg", "src"} -> 3
      [] name \in {"core", "main", "tool"} -> 4
      [] name \in {"a.yml", "f.sol", "w.yml", "x.yml",
                      "y.yml", "z.yml"} -> 5
      [] name \in {"action", "bug.md", "ci.yml", "source",
                      "vendor"} -> 6
      [] name \in {".config", ".github", "actions", "lib.git"} -> 7
      [] name \in {"dotfiles", "main.yml", "root.yml", "tool.git"} -> 8
      [] name \in {"README.md", "workflows"} -> 9
      [] name \in {".gitignore", "action.yml", "finding.md"} -> 10
      [] name \in {".gitmodules"} -> 11
      [] name \in {"cyfrin-report"} -> 13
      [] name \in {"ISSUE_TEMPLATE"} -> 14
      [] name \in {"generate-report.yml"} -> 19
      [] name \in {"summary_information.conf"} -> 24
      [] name \in {"report-generator-template"} -> 25

RECURSIVE Join(_, _)
\* sep.join(parts) for a path: the components with sep between them
Join(parts, sep) ==
    IF parts = <<>> THEN <<>>
    ELSE IF Len(parts) = 1 THEN <<parts[1]>>
    ELSE <<parts[1], sep>> \o Join(Tail(parts), sep)

RECURSIVE PathLen(_)
\* len() of the path string of a directory
PathLen(dir) ==
    IF dir = <<>> THEN 0
    ELSE StrLen(dir[1]) + (IF Len(dir) > 1 THEN 1 ELSE 0) + PathLen(Tail(dir))

\* the index of the first "." of a token sequence (0 if there is none)
FirstDot(seq) ==
    IF \E i \in 1..Len(seq) : seq[i] = "."
    THEN CHOOSE i \in 1..Len(seq) : seq[i] = "." /\ \A j \in 1..(i - 1) : seq[j] # "."
    ELSE 0

LastDot(seq) ==
    IF \E i \in 1..Len(seq) : seq[i] = "."
    THEN CHOOSE i \in 1..Len(seq) : seq[i] = "." /\ \A j \in (i + 1)..Len(seq) : seq[j] # "."
    ELSE 0

\* a line of `git config -f <file> --list`, without its "submodule." head:
\* <name>.<key>
ListedKey(m) == m.name \o <<".", m.key>>

\* submodule_name = parts[1] and config_key = ".".join(parts[2:]) of
\* key.split(".")
ParsedName(m) == SubSeq(ListedKey(m), 1, FirstDot(ListedKey(m)) - 1)

ParsedKey(m) ==
    SubSeq(ListedKey(m), FirstDot(ListedKey(m)) + 1, Len(ListedKey(m)))

\* a name that gets the prefix for the root file as well
UniqueName_AlwaysPrefixed(dir, name) == Join(dir, "_") \o <<"_">> \o name

\* f"{subtree_path.replace('/', '_')}_{submodule_name}", or the name itself
\* for the root file
UniqueName(dir, name) ==
    IF dir = <<>> THEN name ELSE Join(dir, "_") \o <<"_">> \o name

\* os.path.join(subtree_path, configs["path"]), or the path itself for the
\* root file
NewPath(dir, path) ==
    IF dir = <<>> THEN path ELSE Join(dir, "/") \o <<"/">> \o path

\* the .gitmodules files found by glob(os.path.join(repo_path, "**",
\* ".gitmodules"), recursive=True), by their directories
GitmodulesDirs(tree) ==
    { d \in RecursiveDirs(tree, <<>>) : Exists(tree, d \o <<".gitmodules">>) }

\* what the second pass adds to root_config for the file of directory dir:
\* [key, value, dir, name] with key the full key without its "submodule."
\* head (dir and name tell which declaration the line comes from)
FileConfig(modules, dir) ==
    LET here     == { m \in modules : m.dir = dir }
        withPath == { ParsedName(m) : m \in { x \in here : ParsedKey(x) = <<"path">> } }
    IN { [key   |-> UniqueName(dir, ParsedName(m)) \o <<".">> \o ParsedKey(m),
          value |-> IF ParsedKey(m) = <<"path">> THEN NewPath(dir, m.value) ELSE m.value,
          dir   |-> dir,
          name  |-> m.name]
         : m \in { x \in here : ParsedName(x) \in withPath } }

\* the files in an order the sort by len(os.path.dirname(x)) can give
SortedOrders(dirs) ==
    { o \in [1..Cardinality(dirs) -> dirs] :
        /\ \A i, j \in DOMAIN o : i # j => o[i] # o[j]
        /\ \A i, j \in DOMAIN o : i < j => PathLen(o[i]) <= PathLen(o[j]) }

\* root_config after the loop over the files in this order: for every key
\* the line of the last file that sets it
RootConfig(modules, order) ==
    LET lines(i) == FileConfig(modules, order[i])
    IN UNION { { l \in lines(i) :
                   \A j \in (i + 1)..Len(order) :
                       \A l2 \in lines(j) : l2.key # l.key }
               : i \in DOMAIN order }

\* the root .gitmodules that `git config -f <root> <key> <value>` writes
\* for the lines: git reads the key as <name>.<variable>, the variable
\* being what follows the last "."
WrittenRoot(lines) ==
    { [dir   |-> <<>>,
       name  |-> SubSeq(l.key, 1, LastDot(l.key) - 1),
       key   |-> l.key[Len(l.key)],
       value |-> l.value] : l \in lines }

MergeSubmodules ==
    /\ run.pc = "submodules"
    /\ LET dirs == GitmodulesDirs(local.tree)
       IN IF dirs = {}
          THEN \* "No .gitmodules files found"
               /\ run' = [run EXCEPT !.pc = "issue_template"]
               /\ UNCHANGED <<remote, local>>
          ELSE \E order \in SortedOrders(dirs), pushFails \in BOOLEAN :
                 /\ pushFails => MayFail
                 /\ LET lines   == RootConfig(local.modules, order)
                        all     == UNION { FileConfig(local.modules, d) : d \in dirs }
                        oldRoot == { m \in local.modules : m.dir = <<>> }
                        newRoot == WrittenRoot(lines)
                        mods    == (local.modules \ oldRoot) \cup newRoot
                        tree    == AddFiles(local.tree, <<>>, { <<".gitmodules">> })
                        changed == newRoot # oldRoot \/ tree.files # HeadFiles(local.commits)
                        commit  == [kind |-> "gitmodules", entry |-> 0, files |-> tree.files]
                        commits == Append(local.commits, commit)
                    IN IF lines = {}
                       THEN \* "No submodule configurations found to write"
                            /\ ~pushFails
                            /\ run' = [run EXCEPT !.pc = "issue_template"]
                            /\ UNCHANGED <<remote, local>>
                       ELSE IF ~changed
                       THEN \* git commit fails: nothing to commit; logged
                            /\ ~pushFails
                            /\ local' = [local EXCEPT !.assigned = all]
                            /\ run' = [Did(run, {"git_config", "git_add", "git_commit"}, 0)
                                          EXCEPT !.pc = "issue_template"]
                            /\ remote' = remote
                       ELSE /\ local' = [local EXCEPT !.tree = tree, !.modules = mods,
                                                      !.commits = commits,
                                                      !.assigned = all]
                            /\ remote' = IF pushFails THEN remote
                                         ELSE [remote EXCEPT !.main = commits]
                            /\ run' = [Did(IF pushFails THEN Fault(run) ELSE run,
                                           {"git_config", "git_add", "git_commit",
                                            "git_push"}, 0)
                                          EXCEPT !.pc = "issue_template"]
    /\ UNCHANGED config

(***************************************************************************)
(* add_issue_template_to_repo: the template is created through the API, on *)
(* the remote default branch, unless it exists.  A GithubException of      *)
(* create_file is not caught: it ends the run.                             *)
(***************************************************************************)
IssueTemplatePath == <<".github", "ISSUE_TEMPLATE", "finding.md">>

\* a commit the contents API makes on top of a branch
ApiCommit(commits, kind, path) ==
    [kind |-> kind, entry |-> 0, files |-> HeadFiles(commits) \cup {path}]

AddIssueTemplate ==
    /\ run.pc = "issue_template"
    /\ \E createFails \in BOOLEAN :
          /\ createFails => MayFail
          /\ IF IssueTemplatePath \in HeadFiles(remote.main)
             THEN /\ ~createFails
                  /\ run' = [Did(run, {"get_contents"}, 0) EXCEPT !.pc = "labels"]
                  /\ UNCHANGED <<remote, local>>
             ELSE IF createFails
             THEN /\ run' = Raise(Did(Fault(run), {"get_contents", "create_file"}, 0),
                                  "error")
                  /\ remote' = RemoteAfterAbort(remote)
                  /\ local' = NoLocal
             ELSE /\ run' = [Did(run, {"get_contents", "create_file"}, 0)
                                EXCEPT !.pc = "labels"]
                  /\ remote' = [remote EXCEPT !.main =
                        Append(@, ApiCommit(@, "issue_template", IssueTemplatePath))]
                  /\ local' = local
    /\ UNCHANGED config

(***************************************************************************)
(* replace_labels_in_repo: delete_default_labels, then create_new_labels.  *)
(* In delete_default_labels the handler of a failed get_label or delete    *)
(* logs the variable label, which is bound only once a get_label has       *)
(* succeeded: when get_label fails for the first default label the handler *)
(* itself raises (UnboundLocalError) and the run ends.                     *)
(***************************************************************************)
DEFAULT_LABELS ==
    <<"bug", "duplicate", "enhancement", "invalid", "question", "wontfix",
      "good first issue", "help wanted", "documentation">>

SEVERITY_DATA ==
    <<"Severity: Critical Risk", "Severity: High Risk", "Severity: Medium Risk",
      "Severity: Low Risk", "Severity: Informational", "Severity: Gas Optimization",
      "Report Status: Open", "Report Status: Acknowledged", "Report Status: Resolved",
      "Client: Acknowledged", "Client: Proposed Invalid", "Client: Will Fix",
      "Client: Proposed Fix">>

Range(seq) == { seq[i] : i \in DOMAIN seq }

\* the index of the default label whose get_label call fails (0: none), and
\* of the severity label whose create_label call fails (0: none)
DeleteFaultChoices == {0, 1, 2}
CreateFaultChoices == {0, 1}

\* get_label raises for default label number k
GetLabelFails(labels, k, faulty) == DEFAULT_LABELS[k] \notin labels \/ faulty = k

\* delete_default_labels raises: its handler runs before label is bound
DeleteLabelsRaises(labels, faulty) == GetLabelFails(labels, 1, faulty)

DeletedLabels(labels, faulty) ==
    { DEFAULT_LABELS[k] : k \in { i \in DOMAIN DEFAULT_LABELS :
                                    ~GetLabelFails(labels, i, faulty) } }

CreatedLabels(labels, faulty) ==
    { SEVERITY_DATA[k] : k \in { i \in DOMAIN SEVERITY_DATA :
                                   SEVERITY_DATA[i] \notin labels /\ faulty # i } }

\* the severity labels whose create_label raises: logged and skipped
SkippedLabels(labels, faulty) ==
    { SEVERITY_DATA[k] : k \in { i \in DOMAIN SEVERITY_DATA :
                                   SEVERITY_DATA[i] \in labels \/ faulty = i } }

ReplaceLabels ==
    /\ run.pc = "labels"
    /\ \E delFault \in DeleteFaultChoices, newFault \in CreateFaultChoices :
          /\ (delFault # 0 \/ newFault # 0) => MayFail
          /\ ~(delFault # 0 /\ newFault # 0)
          /\ LET r0 == IF delFault # 0 \/ newFault # 0 THEN Fault(run) ELSE run
             IN IF DeleteLabelsRaises(remote.labels, delFault)
                THEN /\ newFault = 0
                     /\ run' = Raise(Did(r0, {"get_label"}, 0), "error")
                     /\ remote' = RemoteAfterAbort(remote)
                     /\ local' = NoLocal
                ELSE /\ run' = [Did(r0, {"get_label", "delete_label", "create_label"} \cup
                                       (IF SkippedLabels(remote.labels \
                                                DeletedLabels(remote.labels, delFault),
                                                newFault) = {}
                                        THEN {} ELSE {"label_skipped"}), 0)
                                   EXCEPT !.pc = "branches"]
                     /\ remote' = [remote EXCEPT !.labels =
                           LET kept == @ \ DeletedLabels(@, delFault)
                           IN kept \cup CreatedLabels(kept, newFault)]
                     /\ local' = local
    /\ UNCHANGED config

(***************************************************************************)
(* create_branches_for_auditors and create_report_branch.  The branches    *)
(* are made at repo.get_commits()[0].sha, the head of the remote default   *)
(* branch.  A 422 answer is logged and skipped; any other GithubException  *)
(* is raised as click.UsageError.                                          *)
(***************************************************************************)
\* the longest repositories list of a job whose report is scaffolded, and
\* the number of project_github / commit_hash slots of the conf
MaxConfEntries == 4

\* "" if i == 1 else f"_{i}", appended to the key: the key of slot i
Suffixed(key, i) == [name |-> key, slot |-> i]

\* the keys of the lines of summary_information.conf
ConfKeys ==
    { Suffixed(k, i) : k \in {"project_github", "commit_hash"}, i \in 1..MaxConfEntries }
    \cup { Suffixed("private_github", 1), Suffixed("report_version", 1) }

\* summary_information.conf of the template, and of a branch without it
TemplateConf == [k \in ConfKeys |-> <<"template">>]
NoConf == [k \in ConfKeys |-> <<"absent">>]

BranchExists(rem, name) == \E b \in rem.branches : b.name = name

AuditorBranch(auditor) == <<"audit/", auditor>>

\* create_git_ref(ref, sha) with sha = repo.get_commits()[0].sha
NewBranch(rem, name) ==
    [name |-> name, head |-> CommitId(HeadCommit(rem.main)),
     files |-> HeadFiles(rem.main), conf |-> NoConf]

\* the answers of create_git_ref to the auditors, in list order
BranchAnswers == {"ok", "e422", "error"}

\* a handler that raises on every GithubException
BranchRaises_Any(answer) == answer # "ok"

\* the handler of GithubException raises click.UsageError unless
\* e.status == 422
BranchRaises(answer) == answer = "error"

\* a loop that a 422 answer ends as well
Attempted_StopAt422(answers) ==
    { k \in DOMAIN answers : \A j \in 1..(k - 1) : answers[j] = "ok" }

\* the auditors whose branch is attempted: all up to the first error
Attempted(answers) ==
    { k \in DOMAIN answers : \A j \in 1..(k - 1) : ~BranchRaises(answers[j]) }

\* the branch of auditor number k exists when it is asked for: an earlier
\* auditor of the same name got it
Duplicate(answers, k) ==
    \E j \in 1..(k - 1) : config.auditors[j] = config.auditors[k] /\ answers[j] = "ok"

CreateBranchesForAuditors ==
    /\ run.pc = "branches"
    /\ \E answers \in [DOMAIN config.auditors -> BranchAnswers] :
          LET \* a 422 for a branch that exists is the host's regular answer;
              \* any other exception is a failure of the call
              faulty == { k \in Attempted(answers) :
                            \/ answers[k] = "error"
                            \/ answers[k] = "e422" /\ ~Duplicate(answers, k) }
              made   == { k \in Attempted(answers) : answers[k] = "ok" }
              r0     == Did([run EXCEPT !.faults = @ + Cardinality(faulty)],
                            {"get_commits"}, 0)
              r1     == [r0 EXCEPT !.ops = @ \cup
                            { Op("create_branch", k) : k \in Attempted(answers) } \cup
                            \* log.warn: "Branch ... already exists. Skipping..."
                            { Op("branch_422", k) :
                                k \in { j \in Attempted(answers) : answers[j] = "e422" } } \cup
                            \* log.error: "Error creating branch: ..."
                            { Op("branch_error", k) :
                                k \in { j \in Attempted(answers) : answers[j] = "error" } }]
              after  == [remote EXCEPT !.branches = @ \cup
                            { NewBranch(remote, AuditorBranch(config.auditors[k]))
                                : k \in made }]
          IN /\ run.faults + Cardinality(faulty) <= MaxFaults
             \* a branch that exists is never made again
             /\ \A k \in Attempted(answers) : Duplicate(answers, k) => answers[k] # "ok"
             \* nothing is asked after an error
             /\ \A k \in DOMAIN answers : k \notin Attempted(answers) => answers[k] = "ok"
             /\ IF remote.main = <<>>
                THEN \* get_commits raises on an empty repository
                     /\ faulty = {}
                     /\ run' = Raise(r0, "error")
                     /\ remote' = RemoteAfterAbort(remote)
                     /\ local' = NoLocal
                ELSE IF \E k \in Attempted(answers) : BranchRaises(answers[k])
                THEN /\ run' = Raise(r1, "usage_error")
                     /\ remote' = RemoteAfterAbort(after)
                     /\ local' = NoLocal
                ELSE /\ run' = [r1 EXCEPT !.pc = "report_branch"]
                     /\ remote' = after
                     /\ local' = local
    /\ UNCHANGED config

REPORT_BRANCH_NAME == <<"report">>

CreateReportBranch ==
    /\ run.pc = "report_branch"
    /\ \E answer \in BranchAnswers :
          /\ answer # "ok" => MayFail
          /\ LET r0 == Did(IF answer # "ok" THEN Fault(run) ELSE run,
                           {"get_commits", "create_report_branch"} \cup
                           \* log.warn: "Branch report already exists. Skipping..."
                           (IF answer = "e422" THEN {"report_422"} ELSE {}), 0)
             IN IF BranchRaises(answer)
                THEN /\ run' = Raise(r0, "usage_error")
                     /\ remote' = RemoteAfterAbort(remote)
                     /\ local' = NoLocal
                ELSE /\ run' = [r0 EXCEPT !.pc = "add_subtree"]
                     /\ remote' = IF answer = "ok"
                                  THEN [remote EXCEPT !.branches = @ \cup
                                           { NewBranch(remote, REPORT_BRANCH_NAME) }]
                                  ELSE remote
                     /\ local' = local
    /\ UNCHANGED config

(***************************************************************************)
(* add_subtree: the report branch is made locally from main, the report    *)
(* template is merged under cyfrin-report/report-generator-template, its   *)
(* workflow file is moved to .github/workflows, summary_information.conf   *)
(* is patched, and the branch is committed and force-pushed.  Every        *)
(* exception is caught and logged; add_subtree never raises.               *)
(***************************************************************************)
SubtreePath == <<"cyfrin-report", "report-generator-template">>

TemplateFiles ==
    { <<"README.md">>,
      <<".github", "workflows", "main.yml">>,
      <<"source", "summary_information.conf">> }

WorkflowFile == <<".github", "workflows", "main.yml">>

\* a loop over every entry of the list
FirstThree_All(repos) == repos

\* repositories[:3]
FirstThree(repos) == SubSeq(repos, 1, IF Len(repos) < 3 THEN Len(repos) ELSE 3)

\* repo_info['sourceUrl'] or repo_info['commitHash'] raises KeyError
ConfKeyError(repos) ==
    \E i \in DOMAIN FirstThree(repos) :
        ~({"sourceUrl", "commitHash"} \subseteq repos[i].keys)

PrivateUrl(c) ==
    <<"https://", "github.com", "/", "org", "/", c.targetRepoName, ".git">>

\* the conf after the re.sub calls: the keys of the first three entries and
\* private_github are rewritten, every other line is kept
PatchedConf(conf, c) ==
    LET repos == FirstThree(c.repositories)
    IN [k \in ConfKeys |->
          IF \E i \in DOMAIN repos : k = Suffixed("project_github", i)
          THEN repos[CHOOSE i \in DOMAIN repos : k = Suffixed("project_github", i)].sourceUrl
          ELSE IF \E i \in DOMAIN repos : k = Suffixed("commit_hash", i)
          THEN <<repos[CHOOSE i \in DOMAIN repos : k = Suffixed("commit_hash", i)].commitHash>>
          ELSE IF k = Suffixed("private_github", 1) THEN PrivateUrl(c)
          ELSE conf[k]]

AddSubtree ==
    /\ run.pc = "add_subtree"
    /\ \E failAt \in 0..Len(GitCommands), pushFails \in BOOLEAN, cleanFails \in BOOLEAN :
          /\ (failAt # 0 \/ pushFails \/ cleanFails) => MayFail
          /\ ~(failAt # 0 /\ pushFails)
          /\ ~(cleanFails /\ (failAt # 0 \/ pushFails))
          /\ LET t1      == AddFiles(local.tree, SubtreePath, TemplateFiles)
                 refused == GitSubtreeAddRefuses(local.tree, local.commits, SubtreePath)
                 merged  == [kind |-> "subtree", entry |-> 0, files |-> t1.files]
                 moved   == IF Exists(t1, SubtreePath \o WorkflowFile)
                            THEN AddFiles(
                                   [t1 EXCEPT !.files = @ \ {SubtreePath \o WorkflowFile}],
                                   <<>>, {WorkflowFile})
                            ELSE [t1 EXCEPT !.dirs = @ \cup ParentsOf(WorkflowFile)]
                 install == [kind |-> "install", entry |-> 0, files |-> moved.files]
                 last    == IF failAt = 0 THEN Len(GitCommands) ELSE failAt
                 r0      == Did(IF failAt # 0 \/ pushFails \/ cleanFails
                                THEN Fault(run) ELSE run,
                                {"git_checkout"} \cup CommandsUpTo(last) \cup
                                \* print: "Warning: Could not clean up ..."
                                (IF cleanFails THEN {"cleanup_failed"} ELSE {}), 0)
             IN IF failAt # 0 \/ refused \/ ~verify_files_exist(t1, SubtreePath)
                THEN \* "Report generation setup failed": logged
                     /\ ~pushFails
                     /\ run' = [r0 EXCEPT !.pc = "ci",
                                           !.creds = CredentialsAfter(@, cleanFails)]
                     /\ local' = local
                     /\ remote' = remote
                ELSE IF ConfKeyError(config.repositories)
                THEN \* KeyError while patching the conf: logged
                     /\ ~pushFails
                     /\ run' = [r0 EXCEPT !.pc = "ci",
                                           !.creds = CredentialsAfter(@, cleanFails)]
                     /\ local' = [local EXCEPT !.tree = moved,
                                               !.commits = Append(@, merged)]
                     /\ remote' = remote
                ELSE /\ run' = [Did(r0, {"git_add", "git_commit", "git_push_report"}, 0)
                                   EXCEPT !.pc = "ci",
                                          !.creds = CredentialsAfter(@, cleanFails)]
                     /\ local' = [local EXCEPT !.tree = moved,
                                               !.commits = @ \o <<merged, install>>]
                     /\ remote' =
                          IF pushFails THEN remote
                          ELSE [remote EXCEPT !.branches =
                                  { b \in @ : b.name # REPORT_BRANCH_NAME } \cup
                                  { [name  |-> REPORT_BRANCH_NAME,
                                     head  |-> CommitId(install),
                                     files |-> install.files,
                                     conf  |-> PatchedConf(TemplateConf, config)] }]
    /\ UNCHANGED config

(***************************************************************************)
(* set_up_ci: create_action writes the workflow file on the report branch  *)
(* through the API.  create_action catches a GithubException itself and    *)
(* prints "Failed to add ... workflow"; any other exception leaves it and  *)
(* is caught by set_up_ci, which logs "Error occurred while setting up     *)
(* CI".  The host refuses create_file (a GithubException) when the branch  *)
(* does not exist or already holds the file.                               *)
(***************************************************************************)
ActionFile == <<".github", "workflows", "generate-report.yml">>

\* what repo.create_file can raise
CreateFileFailures == {"none", "GithubException", "Exception"}

\* the host accepts the file: the report branch exists and has no such file
CreateFileAccepted(r) ==
    \E b \in r.branches : b.name = REPORT_BRANCH_NAME /\ ActionFile \notin b.files

SetUpCi ==
    /\ run.pc = "ci"
    /\ \E failure \in CreateFileFailures :
          /\ failure # "none" => MayFail
          /\ LET refused == failure = "GithubException" \/
                            (failure = "none" /\ ~CreateFileAccepted(remote))
             IN /\ run' = [Did(IF failure # "none" THEN Fault(run) ELSE run,
                               {"create_file"} \cup
                               \* print: "Failed to add ... workflow"
                               (IF refused THEN {"workflow_failed"} ELSE {}) \cup
                               \* log.warn: "Error occurred while setting up CI"
                               (IF failure = "Exception" THEN {"ci_failed"} ELSE {}), 0)
                              EXCEPT !.pc = "board"]
                /\ remote' =
                     IF failure # "none" \/ refused THEN remote
                     ELSE [remote EXCEPT !.branches =
                             { IF b.name = REPORT_BRANCH_NAME
                               THEN [b EXCEPT !.head = [kind |-> "ci", entry |-> 0],
                                              !.files = @ \cup {ActionFile}]
                               ELSE b : b \in @ }]
    /\ UNCHANGED <<config, local>>

(***************************************************************************)
(* set_up_project_board: clone_project; every failure is caught.  Then     *)
(* the temporary directory is left and _create_audit_repo returns True.    *)
(***************************************************************************)
\* the steps of clone_project, in order
BoardSteps ==
    <<"repo_edit", "get_node_ids", "copy_project", "update_project",
      "link_project_to_repo">>

\* the step after which the project exists
CopyStep == 3

\* steps that all stop at the first failure
BoardStepsRun_StopAtFirst(failAt) ==
    IF failAt # 0 THEN { BoardSteps[k] : k \in 1..failAt } ELSE Range(BoardSteps)

\* the steps that run when step failAt fails (0: none fails): a failure up
\* to copy_project leaves clone_project, a failure of update_project or of
\* link_project_to_repo is printed and the next step runs
BoardStepsRun(failAt) ==
    IF failAt \in 1..CopyStep THEN { BoardSteps[k] : k \in 1..failAt }
    ELSE Range(BoardSteps)

SetUpProjectBoard ==
    /\ run.pc = "board"
    /\ \E failAt \in 0..Len(BoardSteps) :
          /\ failAt # 0 => MayFail
          /\ run' = [Did(IF failAt # 0 THEN Fault(run) ELSE run,
                         {"clone_project"} \cup BoardStepsRun(failAt) \cup
                         (IF failAt # 0 THEN {"board_failed"} ELSE {}) \cup
                         (IF failAt = CopyStep + 1 THEN {"update_failed"} ELSE {}), 0)
                        EXCEPT !.pc = "done"]
          /\ remote' = [remote EXCEPT !.board = failAt \notin 1..CopyStep]
    /\ local' = NoLocal
    /\ UNCHANGED config

Next ==
    \/ LoadConfig
    \/ CreateTargetRepo
    \/ InitializeRepo
    \/ SkipEntry
    \/ CloneMerge
    \/ CloneCommitPush
    \/ CloneTag
    \/ MergeSubmodules
    \/ AddIssueTemplate
    \/ ReplaceLabels
    \/ CreateBranchesForAuditors
    \/ CreateReportBranch
    \/ AddSubtree
    \/ SetUpCi
    \/ SetUpProjectBoard

Spec == Init /\ [][Next]_vars

(***************************************************************************)
(* merge_submodules on its own: the run stands before the consolidation,   *)
(* with a working tree that holds any declaration files.                   *)
(***************************************************************************)
\* the longest submodule name
MaxNameLen == 3

SubDirs == { <<>>, <<"a">>, <<"a", "c">>, <<".config">> }

SubNames ==
    UNION { [1..n -> {"c", "_"}] : n \in 1..MaxNameLen } \cup { <<"c", ".", "c">> }

DeclChoices == { [dir |-> d, name |-> n] : d \in SubDirs, n \in SubNames }

\* the lines of a declared submodule: its path and its url
DeclLines(d) ==
    { [dir |-> d.dir, name |-> d.name, key |-> "path", value |-> <<"lib">>],
      [dir |-> d.dir, name |-> d.name, key |-> "url", value |-> <<"u">>] }

SubConfig ==
    [fileExists |-> TRUE, targetRepoName |-> "audit", auditors |-> <<"alice">>,
     credentials |-> TRUE, repositories |-> <<EntryLib>>]

InitSub ==
    /\ config = SubConfig
    /\ run = [pc |-> "submodules", idx |-> 2, phase |-> "none", faults |-> 0,
              ops |-> {}, creds |-> <<OtherLine>>]
    /\ \E d1, d2 \in DeclChoices :
       \E decls \in { {}, {d1}, {d1, d2} } :
          LET files == InitCommit.files \cup
                       { d.dir \o <<".gitmodules">> : d \in decls }
              first == [kind |-> "init", entry |-> 0, files |-> files]
          IN /\ local = [present |-> TRUE,
                         tree |-> AddFiles(EmptyTree, <<>>, files),
                         commits |-> <<first>>,
                         modules |-> UNION { DeclLines(d) : d \in decls },
                         assigned |-> {}]
             /\ remote = [exists |-> TRUE, created |-> TRUE, main |-> <<first>>,
                          tags |-> {}, branches |-> {}, labels |-> HostDefaultLabels,
                          board |-> FALSE]

SpecSub == InitSub /\ [][MergeSubmodules]_vars

(***************************************************************************)
(* The properties.                                                         *)
(***************************************************************************)
\* the run is past entry number i of the list, with its clone on disk
PastEntry(i) ==
    /\ i \in DOMAIN config.repositories
    /\ i < run.idx
    /\ local.present

\* directory d ends with the path suffix
EndsWith(d, suffix) ==
    /\ Len(d) >= Len(suffix)
    /\ SubSeq(d, Len(d) - Len(suffix) + 1, Len(d)) = suffix

\* a CI directory, at any depth under the directory target of tree t
CiDirUnder(t, target) ==
    \E d \in t.dirs : \E k \in DOMAIN GITHUB_ACTIONS_PATHS :
        IsPrefix(target, d) /\ EndsWith(d, GITHUB_ACTIONS_PATHS[k])

\* C1: once clone_source_repo_as_subtree is through with an entry, no
\* directory .github/workflows, .github/actions or .github/action is left
\* at any depth under the destination of the entry, whatever the names of
\* the directories above it.
C1_NoCiDirectory ==
    \A i \in DOMAIN config.repositories :
        (PastEntry(i) /\ config.repositories[i].sourceUrl # <<>>
                      /\ config.repositories[i].commitHash # "")
        => ~CiDirUnder(local.tree, SubtreeTarget(config.repositories[i]))

\* every entry of the list has a URL and a commit
AllEntriesGiven ==
    \A i \in DOMAIN config.repositories :
        config.repositories[i].sourceUrl # <<>> /\ config.repositories[i].commitHash # ""

\* the destinations of the entries of the list
Destinations == { SubtreeTarget(config.repositories[i]) : i \in DOMAIN config.repositories }

\* the tree of files holds a file under target that no hidden name leads to
HoldsVisibleFile(files, target) ==
    \E f \in files : IsPrefix(target, f) /\ f # target /\ NoHidden(Below(target, f))

\* C2: after a run that returns successfully on k entries that all have a
\* URL and a commit, the head of the integration branch of the target
\* repository has k destination subdirectories, one per entry, each with a
\* non-hidden file.
C2_EveryDestinationPresent ==
    (run.pc = "done" /\ AllEntriesGiven)
    => /\ Cardinality(Destinations) = Len(config.repositories)
       /\ \A d \in Destinations : HoldsVisibleFile(HeadFiles(remote.main), d)

\* C3: a tag that is created for an entry points at a commit that the
\* merge of that same entry put on the integration branch.
C3_TagOnOwnMerge ==
    \A t \in remote.tags : t.target.entry = t.entry /\ t.target.kind \in {"subtree", "add"}

\* C4: after a run that merged k entries in which nothing failed but for a
\* resource that already exists, the target repository has k tags, one per
\* merged entry.
C4_OneTagPerEntry ==
    (run.pc = "done" /\ run.faults = 0 /\ AllEntriesGiven)
    => /\ Cardinality(remote.tags) = Len(config.repositories)
       /\ \A i \in DOMAIN config.repositories : \E t \in remote.tags : t.entry = i

\* an entry whose sourceUrl or commitHash is missing or empty
Skippable(e) == e.sourceUrl = <<>> \/ e.commitHash = ""

\* the operations of the loop over the entries (the others carry no entry)
EntryOps ==
    { o \in run.ops :
        /\ o.entry # 0
        /\ o.op \in {"rm_rf", "git_ls_remote", "git_remote_add", "git_fetch",
                     "git_subtree_add", "git_add", "git_commit", "git_push",
                     "get_commits", "create_git_tag", "create_git_ref", "tag_exists",
                     "merge_failed", "push_failed"} }

\* C5: an entry whose sourceUrl or commitHash is missing or empty is
\* skipped: no git or remote operation is run for it, the run does not
\* abort at it, and every later entry of the list is still processed.
C5_IncompleteEntrySkipped ==
    \A i \in DOMAIN config.repositories :
        Skippable(config.repositories[i])
        => /\ \A o \in EntryOps : o.entry # i
           /\ ~(run.pc \in {"error", "usage_error"} /\ run.idx = i)
           /\ \A j \in DOMAIN config.repositories :
                 (i < j /\ j < run.idx /\ ~Skippable(config.repositories[j]))
                 => Op("git_ls_remote", j) \in run.ops

\* an entry that follows a skipped one has been merged
C5_Witness ==
    \E i, j \in DOMAIN config.repositories :
        /\ i < j
        /\ Skippable(config.repositories[i])
        /\ i < run.idx
        /\ Op("git_subtree_add", j) \in run.ops
        /\ run.pc = "done"

\* the target repository is as it was before the run
RemoteUntouched ==
    /\ ~remote.created
    /\ remote.main = <<>>
    /\ remote.tags = {}
    /\ remote.branches = {}
    /\ remote.labels = {}
    /\ ~remote.board

\* C6: a run that ends with a usage error has made no remote mutation
\* (repository, push, tag, label, branch, file).
C6_UsageErrorBeforeMutation == run.pc = "usage_error" => RemoteUntouched

\* the configurations the validation is to refuse for their content
InvalidConfig(c) ==
    \/ ~c.fileExists
    \/ c.repositories = <<>>
    \/ c.targetRepoName = ""
    \/ c.auditors = <<>>

\* C7: with no config file, no repositories, no targetRepoName or no
\* auditors, _create_audit_repo raises a usage error and has no side
\* effect: create_target_repo is not called, no git command is run.
C7_InvalidConfigRefused ==
    (InvalidConfig(config) /\ run.pc # "start")
    => /\ run.pc = "usage_error"
       /\ run.ops = {}
       /\ RemoteUntouched
       /\ local = NoLocal

\* a configuration without auditors has been refused
C7_Witness ==
    /\ config.fileExists
    /\ config.repositories # <<>>
    /\ config.targetRepoName # ""
    /\ config.auditors = <<>>
    /\ config.credentials
    /\ run.pc = "usage_error"

\* C8: when the existence check of create_target_repo finds the
\* repository, create_target_repo raises without asking for the creation,
\* and no later stage runs.
C8_ExistingRepoRefused ==
    Op("target_found", 0) \in run.ops
    => /\ run.pc = "usage_error"
       /\ run.ops = { Op("ls_remote_target", 0), Op("target_found", 0) }
       /\ ~remote.created
       /\ local = NoLocal

\* the existence check has found the repository
C8_Witness ==
    /\ Op("target_found", 0) \in run.ops
    /\ remote.exists
    /\ run.pc = "usage_error"

\* C9: once the run has created the target repository, the repository
\* exists in every later state, also after an abort at any stage.
C9_NeverDeleted == remote.created => remote.exists

\* a run aborted after it created the repository
C9_Witness ==
    /\ run.pc \in {"error", "usage_error"}
    /\ remote.created
    /\ remote.exists

\* the name a line of the consolidated file gives its submodule
ReceivedName(l) == SubSeq(l.key, 1, LastDot(l.key) - 1)

\* C10: in the consolidated root file, two submodules from different
\* declaration files, or with different names, receive different names.
C10_DistinctNames ==
    run.pc = "issue_template"
    => \A l1, l2 \in local.assigned :
          (l1.dir # l2.dir \/ l1.name # l2.name) => ReceivedName(l1) # ReceivedName(l2)

\* the name and the path the consolidated file is to give the submodule of
\* line m: its own for the root file, prefixed with the subtree path else
ExpectedName(m) ==
    IF m.dir = <<>> THEN m.name ELSE Join(m.dir, "_") \o <<"_">> \o m.name

ExpectedValue(m) ==
    IF m.key = "path" /\ m.dir # <<>>
    THEN Join(m.dir, "/") \o <<"/">> \o m.value
    ELSE m.value

\* the line of the root file that line m of a declaration file is to become
ExpectedLine(m) ==
    [dir |-> <<>>, name |-> ExpectedName(m), key |-> m.key, value |-> ExpectedValue(m)]

\* the lines of the submodules that a declaration file declares with a path
DeclaredWithPath(mods) ==
    { m \in mods : \E q \in mods : q.dir = m.dir /\ q.name = m.name /\ q.key = "path" }

\* C11: merge_submodules leaves in the root declaration file one entry for
\* every submodule declared with a path in any declaration file of the
\* working tree, whatever its name: under its own name and path for the
\* root file, under <subtree path with _>_<name> and <subtree path>/<path>
\* otherwise, its other attributes unchanged.
C11_EveryDeclarationWritten ==
    [][(run.pc = "submodules" /\ run'.pc = "issue_template")
       => \A m \in DeclaredWithPath(local.modules) :
             ExpectedLine(m) \in local'.modules]_vars

\* the branch of auditor number k is on the target repository, at commit c
AuditorBranchAt(k, c) ==
    \E b \in remote.branches :
        b.name = AuditorBranch(config.auditors[k]) /\ b.head = c

\* C12: after a run that returns successfully every auditor of the list has
\* a branch audit/<name>, and the branch points at the commit the
\* integration branch began with (its initial state).
C12_BranchAtInitialCommit ==
    run.pc = "done"
    => \A k \in DOMAIN config.auditors : AuditorBranchAt(k, CommitId(InitCommit))

\* the stages that follow create_branches_for_auditors
AfterBranches == {"report_branch", "add_subtree", "ci", "board", "done"}

\* C13: create_branches_for_auditors attempts the branches in list order;
\* a 422 answer skips that auditor only, the later auditors are still
\* attempted; any other error aborts the run at that auditor.
C13_BranchLoop ==
    /\ \A k \in DOMAIN config.auditors :
          /\ Op("create_branch", k) \in run.ops
             => \A j \in 1..(k - 1) : Op("create_branch", j) \in run.ops
          /\ (Op("branch_422", k) \in run.ops /\ k < Len(config.auditors))
             => Op("create_branch", k + 1) \in run.ops
          /\ Op("branch_error", k) \in run.ops
             => /\ run.pc = "usage_error"
                /\ \A j \in DOMAIN config.auditors :
                      j > k => Op("create_branch", j) \notin run.ops
                /\ Op("create_report_branch", 0) \notin run.ops
    /\ run.pc \in AfterBranches
       => \A k \in DOMAIN config.auditors : Op("create_branch", k) \in run.ops

\* the first auditor was answered 422 and the second has a branch
C13_Witness ==
    /\ Len(config.auditors) = 2
    /\ Op("branch_422", 1) \in run.ops
    /\ AuditorBranchAt(2, CommitId(HeadCommit(remote.main)))
    /\ run.pc \in AfterBranches

(***************************************************************************)
(* replace_labels_in_repo on its own: the run stands before the labels,    *)
(* on a repository that has any of the default labels and any of the       *)
(* severity labels (an organisation sets the default labels of its new     *)
(* repositories; a second application finds what the first one left).      *)
(***************************************************************************)
\* the default labels the repository may lack
AbsentChoices == {"bug", "duplicate", "wontfix", "documentation"}

\* the severity labels the repository may have
PresentChoices == {"Severity: Critical Risk", "Report Status: Open", "Client: Proposed Fix"}

LabelSetChoices ==
    { (HostDefaultLabels \ d) \cup p : d \in SUBSET AbsentChoices, p \in SUBSET PresentChoices }
    \cup { Range(SEVERITY_DATA) }

InitLabels ==
    /\ config = SubConfig
    /\ run = [pc |-> "labels", idx |-> 2, phase |-> "none", faults |-> 0,
              ops |-> {}, creds |-> <<OtherLine>>]
    /\ remote \in { [exists |-> TRUE, created |-> TRUE, main |-> <<InitCommit>>,
                     tags |-> {}, branches |-> {}, labels |-> l, board |-> FALSE]
                    : l \in LabelSetChoices }
    /\ local = [present |-> TRUE,
                tree |-> AddFiles(EmptyTree, <<>>, InitCommit.files),
                commits |-> <<InitCommit>>, modules |-> {}, assigned |-> {}]

SpecLabels == InitLabels /\ [][ReplaceLabels]_vars

(***************************************************************************)
(* The module replace_labels.py, which _create_audit_repo does not call:   *)
(* delete_default_labels and create_new_labels wrap every label in a try   *)
(* with a bare except, so a label whose call fails is skipped and          *)
(* replace_labels never raises.                                            *)
(***************************************************************************)
default_labels ==
    <<"bug", "duplicate", "enhancement", "invalid", "question", "wontfix",
      "good first issue", "help wanted", "documentation">>

new_labels ==
    <<"Severity: Critical Risk", "Severity: High Risk", "Severity: Medium Risk",
      "Severity: Low Risk", "Severity: Informational", "Severity: Gas Optimization",
      "Status: Open", "Status: Acknowledged", "Status: Resolved", "Status: Closed">>

\* the default labels for which get_label returns, so that label.delete()
\* is called, when get_label fails for default label number faulty
LabelsToDelete(have, faulty) ==
    { default_labels[k] : k \in { i \in DOMAIN default_labels :
                                    default_labels[i] \in have /\ i # faulty } }

\* the labels of the repository after delete_default_labels: get_label
\* raises for a label the repository lacks, and the label of a failed call
\* stays
delete_default_labels(have, faulty) == have \ LabelsToDelete(have, faulty)

\* the labels of the repository after create_new_labels, when the call for
\* label number faulty fails (0: none): create_label raises for a label the
\* repository has, which stays
create_new_labels(have, faulty) ==
    have \cup { new_labels[k] : k \in { i \in DOMAIN new_labels : i # faulty } }

replace_labels ==
    /\ run.pc = "replace_labels"
    /\ \E delFault \in DeleteFaultChoices, newFault \in CreateFaultChoices :
          /\ (delFault # 0 \/ newFault # 0) => MayFail
          /\ ~(delFault # 0 /\ newFault # 0)
          /\ run' = [Did(IF delFault # 0 \/ newFault # 0 THEN Fault(run) ELSE run,
                         {"get_label", "create_label"} \cup
                         (IF LabelsToDelete(remote.labels, delFault) = {}
                          THEN {} ELSE {"delete_label"}), 0)
                       EXCEPT !.pc = "replaced"]
          /\ remote' = [remote EXCEPT !.labels =
                          create_new_labels(delete_default_labels(@, delFault), newFault)]
    /\ UNCHANGED <<config, local>>

\* a call of replace_labels(repo) on a repository with any of the label
\* sets
InitReplace ==
    /\ config = SubConfig
    /\ run = [pc |-> "replace_labels", idx |-> 2, phase |-> "none", faults |-> 0,
              ops |-> {}, creds |-> <<OtherLine>>]
    /\ remote \in { [exists |-> TRUE, created |-> TRUE, main |-> <<InitCommit>>,
                     tags |-> {}, branches |-> {}, labels |-> l, board |-> FALSE]
                    : l \in LabelSetChoices }
    /\ local = [present |-> TRUE,
                tree |-> AddFiles(EmptyTree, <<>>, InitCommit.files),
                commits |-> <<InitCommit>>, modules |-> {}, assigned |-> {}]

SpecReplace == InitReplace /\ [][replace_labels]_vars

\* C14: replace_labels_in_repo does not raise, whatever default labels the
\* repository lacks and whatever severity labels it has, and then every
\* severity label is present (once: the labels of a repository are a set).
C14_LabelsReplaced ==
    (run.pc # "labels" /\ run.faults = 0)
    => /\ run.pc = "branches"
       /\ Range(SEVERITY_DATA) \subseteq remote.labels

\* the operation is logged by the step
NewOp(name, entry) == Op(name, entry) \notin run.ops /\ Op(name, entry) \in run'.ops

\* what a step that logs a conflict does
ConflictStep ==
    /\ \A i \in DOMAIN config.repositories :
          NewOp("tag_exists", i)
          => /\ run'.idx = i + 1
             /\ run'.pc = IF i < Len(config.repositories) THEN "merge" ELSE "submodules"
    /\ NewOp("label_skipped", 0) => run'.pc = "branches"
    /\ \A k \in DOMAIN config.auditors :
          NewOp("branch_422", k)
          => /\ (k < Len(config.auditors)) => (Op("create_branch", k + 1) \in run'.ops)
             /\ (\A j \in DOMAIN config.auditors : ~NewOp("branch_error", j))
                => run'.pc = "report_branch"
    /\ NewOp("report_422", 0) => run'.pc = "add_subtree"

\* C15: an "already exists" conflict on a source tag, a severity label, an
\* auditor branch or the report branch never aborts the run: the step ends
\* where it ends when the creation succeeds (the next entry or stage).
C15_ConflictTolerated == [][ConflictStep]_vars

\* a run that met a tag and an auditor branch that existed has ended
\* successfully
C15_Witness ==
    /\ run.pc = "done"
    /\ \E i \in DOMAIN config.repositories : Op("tag_exists", i) \in run.ops
    /\ \E k \in DOMAIN config.auditors : Op("branch_422", k) \in run.ops

\* the files of the report branch of the target repository
ReportFiles ==
    UNION { b.files : b \in { x \in remote.branches : x.name = REPORT_BRANCH_NAME } }

\* C16: after a run that returns successfully the report branch is on the
\* target repository, with the report-generator-template subtree under
\* cyfrin-report/ and a workflow file under .github/workflows that refers
\* to the report generation.
C16_ReportBranchScaffolded ==
    (run.pc = "done" /\ run.faults = 0)
    => /\ BranchExists(remote, REPORT_BRANCH_NAME)
       /\ \E f \in ReportFiles : IsPrefix(SubtreePath, f) /\ f # SubtreePath
       /\ \E f \in ReportFiles : f \in {WorkflowFile, ActionFile}

\* C17: a failure of the installation of the CI workflow or of a step of
\* the project-board setup is caught: the remaining stages and steps are
\* still attempted and _create_audit_repo returns True.
C17_BestEffortStages ==
    /\ (Op("ci_failed", 0) \in run.ops \/ Op("workflow_failed", 0) \in run.ops)
       => /\ run.pc \in {"board", "done"}
          /\ run.pc = "done" => Op("clone_project", 0) \in run.ops
    /\ Op("board_failed", 0) \in run.ops => run.pc = "done"
    /\ Op("update_failed", 0) \in run.ops => Op("link_project_to_repo", 0) \in run.ops

\* the run returned although the update of the board failed
C17_Witness ==
    /\ run.pc = "done"
    /\ Op("update_failed", 0) \in run.ops
    /\ remote.board

\* clone_source_repo_as_subtree or add_subtree has written the token
TokenWasWritten ==
    \E o \in run.ops : o.op = "git_ls_remote"

\* C18: when clone_source_repo_as_subtree or add_subtree has finished, by
\* a return or by an exception, no line of the credential-helper file
\* holds the access token.
C18_TokenScrubbed ==
    TokenWasWritten
    => \A i \in DOMAIN run.creds : ~HoldsToken(run.creds[i])

(***************************************************************************)
(* remove_github_actions on its own: the run stands after the merge of an  *)
(* entry into directory d (verify_files_exist has returned), before the    *)
(* removal.  The working tree holds the README.md of the initial commit,   *)
(* the files merged under d and, when the entry is the second one, what    *)
(* the entry before it has left in its own directory.                      *)
(***************************************************************************)
\* the most files of the working tree besides README.md
MaxTreeFiles == 5

\* the destinations
RemoveDirs == { <<"a">>, <<"a", "b">> }

\* the destination of the entry merged before the one of destination d
PriorDir(d) == IF d = <<"a">> THEN <<"c">> ELSE <<"a">>

FilePool ==
    { <<"a", "src", "f.sol">>,
      <<"a", "action.yml">>,
      <<"a", "workflows", "w.yml">>,
      <<"a", ".github", "workflows", "ci.yml">>,
      <<"a", ".github", "actions", "x.yml">>,
      <<"a", ".github", "action", "y.yml">>,
      <<"a", ".github", "ISSUE_TEMPLATE", "bug.md">>,
      <<"a", ".config", ".github", "workflows", "ci.yml">>,
      <<"a", "b", "f.sol">>,
      <<"a", "b", ".github", "workflows", "ci.yml">>,
      <<"a", "b", "src", ".github", "action", "z.yml">>,
      <<"c", "f.sol">>,
      <<"c", ".config", ".github", "workflows", "ci.yml">> }

RemoveEntry(d) ==
    [sourceUrl |-> EntryLib.sourceUrl, commitHash |-> EntryLib.commitHash,
     subFolder |-> d, keys |-> {"sourceUrl", "commitHash", "subFolder"}]

\* the files fs are what the processing of an entry of destination p has
\* left: they are in p, verify_files_exist has returned on them and
\* remove_github_actions has been through them
LeftByEntry(fs, p) ==
    LET t == AddFiles(EmptyTree, <<>>, fs)
    IN /\ \A f \in fs : IsPrefix(p, f)
       /\ verify_files_exist(t, p)
       /\ remove_github_actions(t, p) = t

InitRemove ==
    \E d \in RemoveDirs, fs \in SUBSET FilePool :
       /\ Cardinality(fs) <= MaxTreeFiles
       /\ LET inside  == { f \in fs : IsPrefix(d, f) }
              outside == fs \ inside
              tree    == AddFiles(EmptyTree, <<>>, InitCommit.files \cup fs)
              before  == IF outside = {} THEN <<>>
                         ELSE << [kind |-> "subtree", entry |-> 1,
                                  files |-> InitCommit.files \cup outside] >>
              idx     == Len(before) + 1
              merged  == [kind |-> "subtree", entry |-> idx,
                          files |-> InitCommit.files \cup fs]
          IN /\ outside # {} => LeftByEntry(outside, PriorDir(d))
             /\ verify_files_exist(tree, d)
             /\ config = [SubConfig EXCEPT !.repositories =
                            IF outside = {} THEN <<RemoveEntry(d)>>
                            ELSE <<RemoveEntry(PriorDir(d)), RemoveEntry(d)>>]
             /\ run = [pc |-> "merge", idx |-> idx, phase |-> "commit_push",
                       faults |-> 0, ops |-> {}, creds |-> <<OtherLine>>]
             /\ remote = [exists |-> TRUE, created |-> TRUE,
                          main |-> <<InitCommit>> \o before,
                          tags |-> {}, branches |-> {}, labels |-> HostDefaultLabels,
                          board |-> FALSE]
             /\ local = [present |-> TRUE, tree |-> tree,
                         commits |-> <<InitCommit>> \o before \o <<merged>>,
                         modules |-> {}, assigned |-> {}]

SpecRemove == InitRemove /\ [][CloneCommitPush]_vars

\* path p is in, or is, a CI directory found under directory d of tree t
InCiDirUnder(t, d, p) ==
    \E q \in t.dirs : \E k \in DOMAIN GITHUB_ACTIONS_PATHS :
        /\ IsPrefix(d, q)
        /\ EndsWith(q, GITHUB_ACTIONS_PATHS[k])
        /\ IsPrefix(q, p)

\* what the removal in directory d makes of tree t into tree u
RemovalFrame(t, u, d) ==
    /\ u.files \subseteq t.files
    /\ u.dirs \subseteq t.dirs
    /\ \A f \in t.files \ u.files : InCiDirUnder(t, d, f)
    /\ \A q \in t.dirs \ u.dirs : InCiDirUnder(t, d, q)
    /\ ~CiDirUnder(t, d) => u = t

\* C19: remove_github_actions(d) deletes nothing but the directories
\* .github/workflows, .github/actions and .github/action found inside d,
\* with what they hold: every other file and directory inside and outside
\* d stays, and a tree without CI directory under d is left as it is.
C19_RemovalFrame ==
    [][run.phase = "commit_push"
       => RemovalFrame(local.tree, local'.tree, SubtreeTarget(CurrentEntry))]_vars

\* the CI directory of a was removed; the issue template of a, the file of
\* its sibling c and the CI directory that c keeps under a hidden directory
\* are still there
C19_Witness ==
    /\ run.phase = "tag"
    /\ SubtreeTarget(CurrentEntry) = <<"a">>
    /\ \E k \in DOMAIN local.commits :
          /\ local.commits[k].kind = "subtree"
          /\ <<"a", ".github", "workflows", "ci.yml">> \in local.commits[k].files
    /\ <<"a", ".github", "workflows", "ci.yml">> \notin local.tree.files
    /\ <<"a", ".github", "ISSUE_TEMPLATE", "bug.md">> \in local.tree.files
    /\ <<"c", "f.sol">> \in local.tree.files
    /\ <<"c", ".config", ".github", "workflows", "ci.yml">> \in local.tree.files
    /\ <<"README.md">> \in local.tree.files

\* C20: when a step of the processing of an entry fails - the removal of
\* the destination, the remote, the fetch, the subtree merge, the
\* verification, the commit and push - clone_source_repo_as_subtree raises:
\* the run stops at that entry.
C20_FailedStepRaises ==
    \A i \in DOMAIN config.repositories :
        (Op("merge_failed", i) \in run.ops \/ Op("push_failed", i) \in run.ops)
        => run.pc = "error" /\ run.idx = i

\* the merge of entry i has raised
MergeRaised(i) == Op("merge_failed", i) \in run.ops

\* a step of a run in which no merge has raised; the step in which the
\* merge of entry i raises leaves the target repository as it is and ends
\* the run at entry i
AbortStep ==
    /\ \A i \in DOMAIN config.repositories : ~MergeRaised(i)
    /\ \A i \in DOMAIN config.repositories :
          NewOp("merge_failed", i)
          => /\ remote' = remote
             /\ run'.pc = "error"
             /\ run'.idx = i
             /\ \A o \in run'.ops : o.entry <= i

\* C21: if the merge of source entry i raises, the run aborts there: no
\* later entry is merged, no later stage (submodule consolidation, issue
\* template, labels, branches, report scaffolding, CI, board) is run, and
\* the commits and tags pushed for the entries before i stay as they are
\* on the target repository.
C21_MergeFailureAborts == [][AbortStep]_vars

\* the merge of the second entry raised after the first entry was pushed
\* and tagged
C21_Witness ==
    /\ MergeRaised(2)
    /\ run.pc = "error"
    /\ \E t \in remote.tags : t.entry = 1
    /\ \E k \in DOMAIN remote.main : remote.main[k].entry = 1

\* the destinations of the entries up to number i that have a URL and a
\* commit
DestinationsUpTo(i) ==
    { SubtreeTarget(config.repositories[j]) :
        j \in { n \in DOMAIN config.repositories :
                  n <= i /\ ~Skippable(config.repositories[n]) } }

\* the destinations that a tree of files holds something of
DestinationsIn(files) ==
    { d \in DestinationsUpTo(Len(config.repositories)) :
        \E f \in files : IsPrefix(d, f) /\ f # d }

\* the place of a commit on the integration branch of the target
PlaceOnMain(id) ==
    CHOOSE k \in DOMAIN remote.main : CommitId(remote.main[k]) = id

\* C22: the source entries are merged in list order and one at a time: the
\* merge of a later entry begins only once the commit, the push and the tag
\* attempt of every earlier entry are over, and the commits and the tags of
\* the target repository follow the order of the list (the tag of a later
\* entry is never on an earlier commit than the tag of an earlier entry).
C22_ListOrder ==
    /\ \A o \in EntryOps : o.entry <= run.idx
    /\ \A i, j \in DOMAIN config.repositories :
          (i < j /\ ~Skippable(config.repositories[i]) /\ Op("git_ls_remote", j) \in run.ops)
          => /\ Op("git_commit", i) \in run.ops
             /\ Op("git_push", i) \in run.ops
             /\ Op("get_commits", i) \in run.ops
    /\ \A k, l \in DOMAIN remote.main :
          (k < l /\ remote.main[l].entry # 0) => remote.main[k].entry <= remote.main[l].entry
    /\ \A k \in DOMAIN remote.main :
          remote.main[k].entry # 0
          => DestinationsIn(remote.main[k].files) = DestinationsUpTo(remote.main[k].entry)
    /\ \A t, u \in remote.tags :
          t.entry < u.entry => PlaceOnMain(t.target) <= PlaceOnMain(u.target)

\* two entries were merged, pushed and tagged
C22_Witness ==
    /\ run.pc = "done"
    /\ \E t, u \in remote.tags : t.entry = 1 /\ u.entry = 2
    /\ \E k, l \in DOMAIN remote.main :
          /\ remote.main[k].entry = 1
          /\ remote.main[l].entry = 2
          /\ DestinationsIn(remote.main[k].files) # DestinationsIn(remote.main[l].files)

(***************************************************************************)
(* prepare_authenticated_url on its own: the function is applied to any    *)
(* form of the URL of any repository.                                      *)
(***************************************************************************)
\* the longest repository name of a source URL, in tokens
MaxUrlName == 3

\* the words of a repository name
UrlNames ==
    { n \in UNION { [1..k -> {"repo", ".git", "hub"}] : k \in 1..MaxUrlName } :
        n[1] # ".git" /\ n[Len(n)] # ".git" }

\* the branch names of a /tree/<branch> suffix
UrlBranches == { <<"main">>, <<"feat", "/", "x">> }

\* what follows the repository name in the forms of a URL
UrlSuffixes ==
    { <<>>, <<".git">>, <<"/">> } \cup
    { <<"/", "tree", "/">> \o b : b \in UrlBranches } \cup
    { <<"/", "tree", "/">> \o b \o <<"/">> : b \in UrlBranches }

\* the URL of the repository called name
UrlOf(name) == <<"https://", "github.com", "/", "o", "/">> \o name

\* a call prepare_authenticated_url(source_url, github_token) is to be made
InitPrepare ==
    /\ config = SubConfig
    /\ run \in { [pc |-> "prepare", source_url |-> UrlOf(n) \o s, clean_url |-> <<>>]
                 : n \in UrlNames, s \in UrlSuffixes }
    /\ remote = [exists |-> TRUE, created |-> TRUE, main |-> <<InitCommit>>,
                 tags |-> {}, branches |-> {}, labels |-> HostDefaultLabels,
                 board |-> FALSE]
    /\ local = NoLocal

\* the call returns clean_url
PrepareAuthenticatedUrl ==
    /\ run.pc = "prepare"
    /\ run' = [run EXCEPT
                 !.pc = "prepared",
                 !.clean_url = prepare_authenticated_url(run.source_url, TokenLine.secret)]
    /\ UNCHANGED <<config, remote, local>>

SpecPrepare == InitPrepare /\ [][PrepareAuthenticatedUrl]_vars

\* url without its last token when that token is tok
DropTrailing(url, tok) ==
    IF url # <<>> /\ url[Len(url)] = tok THEN SubSeq(url, 1, Len(url) - 1) ELSE url

\* url without its /tree/<branch> suffix, whatever the branch name
DropTreeSuffix(url) ==
    LET at == { p \in 1..(Len(url) - 3) :
                  url[p] = "/" /\ url[p + 1] = "tree" /\ url[p + 2] = "/" }
    IN IF at = {} THEN url
       ELSE SubSeq(url, 1, (CHOOSE p \in at : \A q \in at : p <= q) - 1)

\* the URL with the token after its leading "https://"
TokenAfterScheme(url, token) ==
    IF url # <<>> /\ url[1] = "https://"
    THEN <<"https://", token, "@">> \o Tail(url)
    ELSE url

\* C23: prepare_authenticated_url returns the source URL with these changes
\* only: a trailing ".git" removed, a trailing slash removed, a trailing
\* /tree/<branch> suffix removed for any branch name, the token inserted
\* after "https://"; every other character is as it was.
C23_OnlyListedChanges ==
    run.pc = "prepared"
    => run.clean_url =
         TokenAfterScheme(
             DropTreeSuffix(DropTrailing(DropTrailing(run.source_url, ".git"), "/")),
             TokenLine.secret)

(***************************************************************************)
(* clone_source_repo_as_subtree on the forms of a URL: the run stands      *)
(* after initialize_repo with one source entry, whose URL is a form of the *)
(* URL of a repository of the host, with or without a subFolder.           *)
(***************************************************************************)
InitUrl ==
    /\ config \in
         { [SubConfig EXCEPT !.repositories =
              << [sourceUrl |-> u \o s, commitHash |-> "c1", subFolder |-> f,
                  keys |-> {"sourceUrl", "commitHash"} \cup
                           (IF f = <<>> THEN {} ELSE {"subFolder"})] >>]
           : u \in {RepoUrl("o1", "lib"), RepoUrl("o3", "tool")},
             s \in UrlSuffixes,
             f \in {<<>>, <<"vendor", "b">>} }
    /\ run = [pc |-> "merge", idx |-> 1, phase |-> "merge", faults |-> 0,
              ops |-> { Op(n, 0) : n \in {"ls_remote_target", "create_repo",
                                          "git_init", "git_commit", "git_push"} },
              creds |-> <<OtherLine>>]
    /\ remote = [exists |-> TRUE, created |-> TRUE, main |-> <<InitCommit>>,
                 tags |-> {}, branches |-> {}, labels |-> HostDefaultLabels,
                 board |-> FALSE]
    /\ local = [present |-> TRUE,
                tree |-> AddFiles(EmptyTree, <<>>, InitCommit.files),
                commits |-> <<InitCommit>>,
                modules |-> {}, assigned |-> {}]

SpecUrl ==
    /\ InitUrl
    /\ [][ \/ CloneMerge
           \/ CloneCommitPush
           \/ CloneTag ]_vars

\* the repository name of a source URL: the last part of the URL without
\* its trailing ".git", slash or /tree/<branch> suffix
RepositoryName(url) ==
    Text(LastPart(DropTreeSuffix(DropTrailing(DropTrailing(url, ".git"), "/"))))

\* clone_source_repo_as_subtree is through with entry i, by a return or by
\* an exception
EntryFinished(i) == run.pc # "merge" \/ run.idx > i

\* C24: with no subFolder the destination is the repository name of the
\* source URL and the tag is <repository name>-cyfrin-audit, for every
\* accepted form of the URL (with or without a trailing ".git", a trailing
\* slash or a /tree/<branch> suffix): the forms of one repository's URL give
\* one destination and one tag name.  Stated for the runs in which no
\* command and no API call fails by an outside cause.
C24_NameFromAnyForm ==
    \A i \in DOMAIN config.repositories :
        (config.repositories[i].subFolder = <<>> /\ EntryFinished(i) /\ run.faults = 0)
        => LET name == RepositoryName(config.repositories[i].sourceUrl)
           IN /\ IsDir(local.tree, <<name>>)
              /\ \E t \in remote.tags : t.entry = i /\ t.name = TagName(name)

(***************************************************************************)
(* The scaffolding of the report branch on its own: the run stands after   *)
(* initialize_repo, with a list of up to MaxConfEntries entries, and no    *)
(* external command or API call fails.                                     *)
(***************************************************************************)
EntryCore ==
    [sourceUrl |-> RepoUrl("o4", "core"),
     commitHash |-> "c7", subFolder |-> <<>>,
     keys |-> {"sourceUrl", "commitHash"}]

\* entries that merge into destinations of their own
MergeableEntries == <<EntryLib, EntryVendored, EntryTool, EntryCore>>

\* the entries at place i of the list
ConfEntriesAt(i) ==
    (IF i <= Len(MergeableEntries) THEN {MergeableEntries[i]} ELSE {})
    \cup {EntryNoCommit, EntryNoUrl}

ConfRepoLists ==
    UNION { { l \in [1..n -> EntryChoices \cup {EntryCore}] :
                \A i \in 1..n : l[i] \in ConfEntriesAt(i) } : n \in 1..MaxConfEntries }

InitConf ==
    /\ config \in { [fileExists |-> TRUE, targetRepoName |-> "audit",
                     auditors |-> <<"alice">>, credentials |-> TRUE,
                     repositories |-> l] : l \in ConfRepoLists }
    /\ run = [pc |-> "merge", idx |-> 1, phase |-> "merge", faults |-> MaxFaults,
              ops |-> { Op(n, 0) : n \in {"ls_remote_target", "create_repo",
                                          "git_init", "git_commit", "git_push"} },
              creds |-> <<OtherLine>>]
    /\ remote = [exists |-> TRUE, created |-> TRUE, main |-> <<InitCommit>>,
                 tags |-> {}, branches |-> {}, labels |-> HostDefaultLabels,
                 board |-> FALSE]
    /\ local = [present |-> TRUE,
                tree |-> AddFiles(EmptyTree, <<>>, InitCommit.files),
                commits |-> <<InitCommit>>,
                modules |-> {}, assigned |-> {}]

SpecConf ==
    /\ InitConf
    /\ [][ \/ SkipEntry
           \/ CloneMerge
           \/ CloneCommitPush
           \/ CloneTag
           \/ MergeSubmodules
           \/ AddIssueTemplate
           \/ ReplaceLabels
           \/ CreateBranchesForAuditors
           \/ CreateReportBranch
           \/ AddSubtree ]_vars

\* the report branches that add_subtree has pushed: they hold the conf
ScaffoldedBranches ==
    { b \in remote.branches : b.name = REPORT_BRANCH_NAME /\ b.conf # NoConf }

\* the number of slots that are filled: min(3, number of entries)
FilledSlots == IF Len(config.repositories) < 3 THEN Len(config.repositories) ELSE 3

\* C25: the scaffolding changes summary_information.conf in this way and no
\* other: for i = 1..min(3, number of entries) the lines project_github and
\* commit_hash of slot i get the URL and the commit of entry i, the line
\* private_github gets the URL of the target repository, and every other
\* line - the slots beyond the number of entries, whatever a fourth or
\* later entry holds - is as the template has it.
C25_ConfPatchedExactly ==
    \A b \in ScaffoldedBranches : \A k \in ConfKeys :
        b.conf[k] =
          IF k.name = "project_github" /\ k.slot <= FilledSlots
          THEN config.repositories[k.slot].sourceUrl
          ELSE IF k.name = "commit_hash" /\ k.slot <= FilledSlots
          THEN <<config.repositories[k.slot].commitHash>>
          ELSE IF k.name = "private_github"
          THEN <<"https://", "github.com", "/", "org", "/", config.targetRepoName, ".git">>
          ELSE TemplateConf[k]

\* the report of a job of four merged entries is scaffolded
C25_Witness ==
    /\ run.pc = "ci"
    /\ Len(config.repositories) = 4
    /\ \A i \in 1..4 : Op("git_subtree_add", i) \in run.ops
    /\ \E b \in ScaffoldedBranches :
          /\ b.conf[Suffixed("project_github", 3)] = EntryTool.sourceUrl
          /\ b.conf[Suffixed("commit_hash", 4)] = <<"template">>

\* the value of the conf line k comes from a merged entry of the list
FromMergedEntry(k, value) ==
    \E i \in DOMAIN config.repositories :
        /\ ~Skippable(config.repositories[i])
        /\ \/ k.name = "project_github" /\ value = config.repositories[i].sourceUrl
           \/ k.name = "commit_hash" /\ value = <<config.repositories[i].commitHash>>

\* C26: an entry that the merge loop skipped for a missing sourceUrl or
\* commitHash has no effect on the report scaffolding: the report branch
\* is built and pushed all the same, and the project_github and
\* commit_hash lines of summary_information.conf are filled from merged
\* entries only.
C26_SkippedEntryNoEffect ==
    (run.pc = "ci" /\ \E i \in DOMAIN config.repositories : Skippable(config.repositories[i]))
    => /\ ScaffoldedBranches # {}
       /\ \A b \in ScaffoldedBranches : \A k \in ConfKeys :
             (k.name \in {"project_github", "commit_hash"} /\ b.conf[k] # TemplateConf[k])
             => FromMergedEntry(k, b.conf[k])

\* C27: the report branch carries the scaffolding of the reporting
\* template only: after the run it holds none of the source subtrees that
\* were merged into the integration branch.
C27_ReportBranchApart ==
    run.pc = "done"
    => \A b \in remote.branches :
          b.name = REPORT_BRANCH_NAME => DestinationsIn(b.files) = {}

\* C28: for every merged entry the history of the integration branch holds
\* the commit "Add <source-repo-name> at commit <first 8 characters of the
\* pinned commit>" (a commit of kind "add" for the entry), whether the
\* source held a CI directory or not.
C28_AddCommitPerEntry ==
    run.pc = "done"
    => \A i \in DOMAIN config.repositories :
          (~Skippable(config.repositories[i]) /\ Op("git_commit", i) \in run.ops)
          => \E k \in DOMAIN remote.main :
                remote.main[k].kind = "add" /\ remote.main[k].entry = i

(***************************************************************************)
(* setup_git_credentials and cleanup_git_credentials on their own: the     *)
(* user's ~/.git-credentials (lines that end with a newline) and the       *)
(* global credential.helper setting ("": not set).                         *)
(***************************************************************************)
\* the longest credential file of the user
MaxCredLines == 2

StaleLine == [host |-> "gitlab.com", secret |-> "stale"]

\* the files the user can have before the run
UserCredFiles ==
    UNION { [1..n -> {TokenLine, OtherLine, StaleLine}] : n \in 0..MaxCredLines }

\* the values of credential.helper the user can have before the run
HelperChoices == {"", "store", "cache"}

\* git config --global credential.helper store
HelperAfterSetup(helper) == "store"

\* git config --global --unset credential.helper, which a failed rewrite
\* of the file skips (the exception leaves the try block before it)
HelperAfterCleanup(helper, fails) == IF fails THEN helper ELSE ""

InitCreds ==
    /\ config = SubConfig
    /\ run \in { [pc |-> "setup", creds |-> f, helper |-> h,
                  before |-> [creds |-> f, helper |-> h]] :
                 f \in UserCredFiles, h \in HelperChoices }
    /\ remote = [exists |-> TRUE, created |-> TRUE, main |-> <<InitCommit>>,
                 tags |-> {}, branches |-> {}, labels |-> HostDefaultLabels,
                 board |-> FALSE]
    /\ local = NoLocal

SetupGitCredentials ==
    /\ run.pc = "setup"
    /\ run' = [run EXCEPT !.pc = "cleanup",
                          !.creds = setup_git_credentials(@),
                          !.helper = HelperAfterSetup(@)]
    /\ UNCHANGED <<config, remote, local>>

CleanupGitCredentials ==
    /\ run.pc = "cleanup"
    /\ \E fails \in BOOLEAN :
          run' = [run EXCEPT !.pc = "cleaned",
                             !.creds = cleanup_git_credentials(@, fails),
                             !.helper = HelperAfterCleanup(@, fails)]
    /\ UNCHANGED <<config, remote, local>>

SpecCreds ==
    /\ InitCreds
    /\ [][ \/ SetupGitCredentials
           \/ CleanupGitCredentials ]_vars

\* C29: setup_git_credentials followed by cleanup_git_credentials gives the
\* user's git credential state back: the credential file has the lines it
\* had before the setup, in the same order, and the global
\* credential.helper setting is what it was before the setup.
C29_CredentialsRestored ==
    run.pc = "cleaned"
    => /\ run.creds = run.before.creds
       /\ run.helper = run.before.helper

(***************************************************************************)
(* merge_submodules twice: the second call works on the working tree that  *)
(* the first one left.                                                     *)
(***************************************************************************)
\* merge_submodules(repo_path) is called again
CallAgain ==
    /\ run.pc = "issue_template"
    /\ run.phase = "none"
    /\ run' = [run EXCEPT !.pc = "submodules", !.phase = "again"]
    /\ UNCHANGED <<config, remote, local>>

SpecAgain ==
    /\ InitSub
    /\ [][ \/ MergeSubmodules
           \/ CallAgain ]_vars

\* the root declaration file: the names with their paths and attributes
RootDeclarations(modules) == { m \in modules : m.dir = <<>> }

\* a step of the second call leaves the root declaration file as it is
SecondCallStep ==
    (run.pc = "submodules" /\ run.phase = "again")
    => RootDeclarations(local'.modules) = RootDeclarations(local.modules)

\* C30: merge_submodules is idempotent: a second call on the working tree
\* that a first call produced leaves the root declaration file with the
\* same submodule names, paths and attributes.
C30_Idempotent == [][SecondCallStep]_vars

\* the second call is over, on a root file into which the first call
\* merged a declaration of the directory a
C30_Witness ==
    /\ run.pc = "issue_template"
    /\ run.phase = "again"
    /\ \E m \in RootDeclarations(local.modules) :
          m.key = "path" /\ m.value = <<"a", "/", "lib">>
    /\ \E m \in local.modules : m.dir = <<"a">>

====
